---- MODULE Spec2Model ----
(***************************************************************************)
(* The client-side synchronisation layer of the TaskFlow frontend:         *)
(*   - SocketManager, the push channel       (lib/socket.ts)               *)
(*   - useMessageStore, the message cache    (stores/messageStore.ts)      *)
(*   - useTaskStore, the task cache          (stores/taskStore.ts)         *)
(*   - api, the remote client                (lib/api.ts)                  *)
(*   - useAuthStore, the session             (stores/authStore.ts)         *)
(* The backend and socket.io-client are the environment: the server's      *)
(* message log and task table, the HTTP requests in flight and the socket  *)
(* objects that io() returns are state of the model, and the server's and  *)
(* the transport's steps are actions next to the program's own.            *)
(***************************************************************************)
EXTENDS Integers, Sequences, FiniteSets, Bags, TLC

\* ------------------------------------------------------------------ bounds
MaxOrphans == 1    \* socket objects io() made that the manager no longer holds
MaxAttach  == 2    \* times one callback is attached to one socket for one event
MaxMsgs    == 2    \* messages the server stores
MaxReqs    == 2    \* HTTP requests of one store in flight at once
MaxTasks   == 2    \* tasks the server creates
MaxCalls   == 4    \* calls of the task store's operations
MaxTimers  == 2    \* setTimeout callbacks of setTyping pending at once

\* setTyping's auto-clear delay, in seconds (setTimeout(..., 3000))
TypingWindow == 3

\* --------------------------------------------------------------- universes
Null     == "null"
Me       == "me"
Channels == {"general", "random"}
Users    == {"u1", "u2"}
Events   == {"message:new"}
Callbacks == {"layout", "page"}
HandlerKeys == Events \X Callbacks
EmitEvents == {"channel:join", "channel:leave"}

VARIABLES
  \* SocketManager (lib/socket.ts)
  socket,      \* this.socket: a socket object, or NoSocket
  listeners,   \* this.listeners: the registry, a set of <<event, callback>>
  orphans,     \* bag of socket objects still open that this.socket no longer names
  \* useMessageStore (stores/messageStore.ts)
  messages, activeChannel, activeRecipient, isLoading, unreadCount,
  srvMsgs,     \* the ids of the messages the server stores
  reqs,        \* bag of the message store's HTTP requests in flight
  \* useTaskStore (stores/taskStore.ts)
  tasks, currentTask, taskLoading, taskError,
  pagination,  \* pagination.total of the last list response
  srvTasks,    \* the server's task table; a task's id is its index
  taskCalls,   \* the calls made of the task store's operations so far
  treqs,       \* bag of the task store's HTTP requests in flight
  typingUsers, \* typingUsers: userId -> boolean, for the users it has a key for
  timers,      \* bag of the pending setTimeout callbacks of setTyping
  typingLog,   \* history of the setTyping calls, per user
  \* api client (lib/api.ts)
  authStorage, \* localStorage['auth-storage']: the persisted token, or none
  pathname,    \* window.location.pathname
  apiReqs,     \* bag of the calls made through api that have not settled
  \* useAuthStore (stores/authStore.ts), with the document it lives in
  user, token, isAuthenticated, authLoading,
  defaultAuth, \* api.defaults.headers.common['Authorization']: a token, or none
  authReqs,    \* bag of the auth store's requests in flight
  navigating,  \* window.location.href was assigned: the document is being replaced
  revoked,     \* history: the token a 401 removed from storage, until a new login
  \* history: the operation the last step performed and what it observed
  last

sockVars == <<socket, listeners, orphans>>
msgVars  == <<messages, activeChannel, activeRecipient, isLoading, unreadCount,
              srvMsgs, reqs>>
taskVars == <<tasks, currentTask, taskLoading, taskError, pagination, srvTasks,
              treqs, taskCalls>>
apiVars  == <<authStorage, pathname, apiReqs>>
typingVars == <<typingUsers, timers, typingLog>>
authVars == <<user, token, isAuthenticated, authLoading, defaultAuth, authReqs,
              navigating, revoked>>
vars     == <<sockVars, msgVars, taskVars, apiVars, typingVars, authVars, last>>

\* ------------------------------------------------------------ bag helpers
BagAdd(b, x) == b (+) SetToBag({x})
BagDel(b, x) == b (-) SetToBag({x})
BagSwap(b, x, y) == BagAdd(BagDel(b, x), y)

\* ======================================================================
\* Push channel: SocketManager over socket.io-client
\* ======================================================================

NoHandlers == [k \in HandlerKeys |-> 0]

\* A socket object as io(WS_URL, {reconnection: true, reconnectionAttempts: 5})
\* returns it: not yet connected, nothing attached, nothing joined or buffered.
\* joined is the server's view of this connection: the channels for which a
\* 'channel:join' was transmitted with no later 'channel:leave'.
FreshSocket ==
  [status |-> "connecting", handlers |-> NoHandlers,
   joined |-> {}, sendBuffer |-> <<>>]

\* socket.on(event, callback): the emitter appends, also when already attached.
SockOn(s, k) == [s EXCEPT !.handlers[k] = @ + 1]

\* socket.off(event, callback): the emitter removes the first match only.
SockOff(s, k) == [s EXCEPT !.handlers[k] = IF @ > 0 THEN @ - 1 ELSE 0]

\* The manager's "Re-attach all listeners" loop over the registry.
RECURSIVE AttachAll(_, _)
AttachAll(s, ks) ==
  IF ks = {} THEN s
  ELSE LET k == CHOOSE x \in ks : TRUE
       IN AttachAll(SockOn(s, k), ks \ {k})

\* What transmitting one outbound event does to the connection's rooms.
Transmit(s, ev, ch) ==
  IF ev = "channel:join" THEN [s EXCEPT !.joined = @ \cup {ch}]
  ELSE [s EXCEPT !.joined = @ \ {ch}]

RECURSIVE Flush(_)
Flush(s) ==
  IF s.sendBuffer = <<>> THEN s
  ELSE Flush(Transmit([s EXCEPT !.sendBuffer = Tail(@)],
                      Head(s.sendBuffer)[1], Head(s.sendBuffer)[2]))

\* socket.emit(event, data) of socket.io-client: sent when connected,
\* buffered until the next connect otherwise.
SockEmit(s, ev, ch) ==
  IF s.status = "connected" THEN Transmit(s, ev, ch)
  ELSE [s EXCEPT !.sendBuffer = Append(@, <<ev, ch>>)]

\* this.socket = null: the value that is no socket object.
NoSocket ==
  [status |-> "null", handlers |-> NoHandlers,
   joined |-> {}, sendBuffer |-> <<>>]

HasSocket(sock) == sock.status # "null"

Live(s) == s.status \in {"connecting", "connected", "reconnecting"}

\* this.socket?.connected
IsConnected == socket.status = "connected"

LiveConnections ==
  (IF Live(socket) THEN 1 ELSE 0) + BagCardinality(orphans)

\* The transport's steps on one socket object.
\* The handshake completes: 'connect' fires and the send buffer is flushed.
HandshakeOk(s) == Flush([s EXCEPT !.status = "connected"])

\* A connection attempt fails: another one is scheduled (reconnection: true),
\* or the attempts are used up (reconnectionAttempts: 5) and the socket is
\* closed for good. The count of attempts is left to the environment.
ConnectFail(s) ==
  {[s EXCEPT !.status = "reconnecting"], [s EXCEPT !.status = "closed"]}

\* The transport drops: the server forgets the connection's rooms and the
\* client starts to reconnect.
Dropped(s) == [s EXCEPT !.status = "reconnecting", !.joined = {}]

\* ---------------------------------------------------------- SocketManager

\* emit without its this.socket?.connected test.
MgrEmitUnguarded(sock, ev, ch) ==
  IF HasSocket(sock) THEN SockEmit(sock, ev, ch) ELSE sock

\* emit(event, data): handed to the socket only when this.socket?.connected.
MgrEmit(sock, ev, ch) ==
  IF sock.status = "connected" THEN SockEmit(sock, ev, ch) ELSE sock

\* The socket.emit calls of one step of the program that go out on the wire:
\* all of them when this.socket?.connected, none otherwise.
Transmitted(sock, calls) == IF sock.status = "connected" THEN calls ELSE <<>>

\* connect without its "Re-attach all listeners" loop.
ConnectedBare(sock, reg) ==
  IF sock.status = "connected" THEN sock ELSE FreshSocket

\* The socket that connect() leaves in this.socket.
Connected(sock, reg) ==
  IF sock.status = "connected" THEN sock
  ELSE AttachAll(FreshSocket, reg)

\* What connect() does with the socket object this.socket named before: it is
\* overwritten without being closed, so it stays open for as long as the
\* transport keeps it.
Abandoned(sock) ==
  IF sock.status # "connected" /\ Live(sock)
  THEN SetToBag({sock}) ELSE EmptyBag

\* connect(token)
Connect ==
  /\ BagCardinality(orphans (+) Abandoned(socket)) <= MaxOrphans
  /\ socket' = Connected(socket, listeners)
  /\ orphans' = orphans (+) Abandoned(socket)
  /\ last' = [op |-> "connect", created |-> ~IsConnected]
  /\ UNCHANGED <<listeners, msgVars, taskVars, apiVars, typingVars, authVars>>

\* The socket that disconnect() leaves in this.socket.
Disconnected(sock) == NoSocket

\* disconnect(): this.socket.disconnect() closes the object, which is then
\* dropped. It has no failing path.
Disconnect ==
  /\ socket' = Disconnected(socket)
  /\ last' = [op |-> "disconnect", hadSocket |-> HasSocket(socket)]
  /\ UNCHANGED <<listeners, orphans, msgVars, taskVars, apiVars, typingVars, authVars>>

\* on(event, callback)
On(k) ==
  /\ socket.handlers[k] < MaxAttach
  /\ listeners' = listeners \cup {k}
  /\ socket' = IF HasSocket(socket) THEN SockOn(socket, k) ELSE socket
  /\ last' = [op |-> "on"]
  /\ UNCHANGED <<orphans, msgVars, taskVars, apiVars, typingVars, authVars>>

\* off(event, callback)
Off(k) ==
  /\ listeners' = listeners \ {k}
  /\ socket' = IF HasSocket(socket) THEN SockOff(socket, k) ELSE socket
  /\ last' = [op |-> "off"]
  /\ UNCHANGED <<orphans, msgVars, taskVars, apiVars, typingVars, authVars>>

\* emit(event, data)
Emit(ev, ch) ==
  /\ socket' = MgrEmit(socket, ev, ch)
  /\ last' = [op |-> "emit", connected |-> IsConnected]
  /\ UNCHANGED <<listeners, orphans, msgVars, taskVars, apiVars, typingVars, authVars>>

\* ------------------------------------------- transport and server steps

\* The handshake of this.socket completes (first connection or reconnection).
SocketUp ==
  /\ socket.status \in {"connecting", "reconnecting"}
  /\ socket' = HandshakeOk(socket)
  /\ last' = [op |-> "transport"]
  /\ UNCHANGED <<listeners, orphans, msgVars, taskVars, apiVars, typingVars, authVars>>

\* A connection attempt of this.socket fails.
SocketError ==
  /\ socket.status \in {"connecting", "reconnecting"}
  /\ socket' \in ConnectFail(socket)
  /\ last' = [op |-> "transport"]
  /\ UNCHANGED <<listeners, orphans, msgVars, taskVars, apiVars, typingVars, authVars>>

\* The transport of this.socket drops while connected.
SocketDrop ==
  /\ IsConnected
  /\ socket' = Dropped(socket)
  /\ last' = [op |-> "transport"]
  /\ UNCHANGED <<listeners, orphans, msgVars, taskVars, apiVars, typingVars, authVars>>

\* The same three steps on a socket object the manager no longer holds; one
\* whose retry budget is spent is closed and gone.
OrphanStep(o) ==
  /\ BagIn(o, orphans)
  /\ \E n \in IF o.status = "connected" THEN {Dropped(o)}
              ELSE {HandshakeOk(o)} \cup ConnectFail(o) :
       orphans' = IF Live(n) THEN BagSwap(orphans, o, n) ELSE BagDel(orphans, o)
  /\ last' = [op |-> "transport"]
  /\ UNCHANGED <<socket, listeners, msgVars, taskVars, apiVars, typingVars, authVars>>

\* The calls one inbound event makes on a socket object: each callback
\* attached for the event runs once per attachment.
Dispatch(s, e) == [cb \in Callbacks |-> s.handlers[<<e, cb>>]]

\* The server pushes event e down the connection of this.socket.
Receive(e) ==
  /\ IsConnected
  /\ last' = [op |-> "receive", event |-> e, current |-> TRUE,
              calls |-> Dispatch(socket, e)]
  /\ UNCHANGED <<sockVars, msgVars, taskVars, apiVars, typingVars, authVars>>

\* The server pushes event e down a connection the manager no longer holds.
OrphanReceive(o, e) ==
  /\ BagIn(o, orphans) /\ o.status = "connected"
  /\ last' = [op |-> "receive", event |-> e, current |-> FALSE,
              calls |-> Dispatch(o, e)]
  /\ UNCHANGED <<sockVars, msgVars, taskVars, apiVars, typingVars, authVars>>

\* ======================================================================
\* Message store: useMessageStore, with the backend's /messages endpoints
\* ======================================================================

\* The messages the backend can come to store. A Message is identified by its
\* id and belongs to one channel or to one direct recipient.
Kinds ==
  << [channel |-> "general", sender |-> Me,   recipient |-> Null],
     [channel |-> Null,      sender |-> Me,   recipient |-> "u1"],
     [channel |-> Null,      sender |-> "u2", recipient |-> Me],
     [channel |-> "random",  sender |-> "u1", recipient |-> Null],
     [channel |-> Null,      sender |-> "u1", recipient |-> Me],
     [channel |-> "random",  sender |-> Me,   recipient |-> Null],
     [channel |-> Null,      sender |-> Me,   recipient |-> "u2"],
     [channel |-> "general", sender |-> "u2", recipient |-> Null] >>

MsgIds == 1..MaxMsgs

Msg(i) ==
  LET k == Kinds[((i - 1) % Len(Kinds)) + 1]
  IN [id |-> i, channel |-> k.channel, sender |-> k.sender,
      recipient |-> k.recipient]

\* addMessage's test "relevant to current view".
InScope(m, ch, rc) ==
  \/ m.channel # Null /\ m.channel = ch
  \/ m.recipient # Null /\ (m.recipient = rc \/ m.sender = rc)

\* messages.find((m) => m._id === id)
HasId(msgs, id) == \E i \in 1..Len(msgs) : msgs[i].id = id

Count(msgs, id) == Cardinality({i \in 1..Len(msgs) : msgs[i].id = id})

\* addMessage without its "Avoid duplicates" test.
AddedToNoDedup(msgs, m, ch, rc) ==
  IF InScope(m, ch, rc) THEN Append(msgs, m) ELSE msgs

\* addMessage without its "Only add if relevant to current view" test.
AddedToNoFilter(msgs, m, ch, rc) ==
  IF ~HasId(msgs, m.id) THEN Append(msgs, m) ELSE msgs

\* addMessage with a direct message matched against its sender only.
AddedToSenderOnly(msgs, m, ch, rc) ==
  IF /\ \/ m.channel # Null /\ m.channel = ch
        \/ m.recipient # Null /\ m.sender = rc
     /\ ~HasId(msgs, m.id)
  THEN Append(msgs, m) ELSE msgs

\* The list addMessage(m) leaves: appended when in the active scope and not
\* yet there by id.
AddedTo(msgs, m, ch, rc) ==
  IF InScope(m, ch, rc) /\ ~HasId(msgs, m.id) THEN Append(msgs, m) ELSE msgs

\* The list sendMessage leaves when its POST resolves with message m.
SentTo(msgs, m) == Append(msgs, m)

\* ---- requests in flight
\* done: the server has handled the request; resp: the ids it answers with.
Req(kind, ch, rc) ==
  [kind |-> kind, channel |-> ch, recipient |-> rc, done |-> FALSE, resp |-> {}]

UnreadReq == Req("unread", Null, Null)

Answered(r, ids) == [r EXCEPT !.done = TRUE, !.resp = ids]

CanIssue == BagCardinality(reqs) < MaxReqs

\* What GET /messages/channel/:name and GET /messages/dm/:userId select.
History(r, stored) ==
  IF r.kind = "channel"
  THEN {i \in stored : Msg(i).channel = r.channel}
  ELSE {i \in stored : \/ Msg(i).sender = r.recipient /\ Msg(i).recipient = Me
                       \/ Msg(i).sender = Me /\ Msg(i).recipient = r.recipient}

\* A response's messages, in the server's order.
RECURSIVE Listed(_)
Listed(ids) ==
  IF ids = {} THEN <<>>
  ELSE LET hi == CHOOSE i \in ids : \A j \in ids : j <= i
       IN Append(Listed(ids \ {hi}), Msg(hi))

\* GET /messages/unread as the server answers it: the messages others sent.
UnreadOnServer(stored) == Cardinality({i \in stored : Msg(i).sender # Me})

\* ---- the store's operations

\* fetchChannelMessages(channel) up to its await.
StartChannelFetch(c) ==
  /\ CanIssue
  /\ isLoading' = TRUE
  /\ messages' = <<>>
  /\ activeChannel' = c
  /\ activeRecipient' = Null
  /\ reqs' = BagAdd(reqs, Req("channel", c, Null))

\* fetchDirectMessages that forgets activeChannel: null.
StartDirectFetchKeepsChannel(u) ==
  /\ CanIssue
  /\ isLoading' = TRUE
  /\ messages' = <<>>
  /\ activeRecipient' = u
  /\ UNCHANGED activeChannel
  /\ reqs' = BagAdd(reqs, Req("dm", Null, u))

\* fetchDirectMessages(userId) up to its await.
StartDirectFetch(u) ==
  /\ CanIssue
  /\ isLoading' = TRUE
  /\ messages' = <<>>
  /\ activeRecipient' = u
  /\ activeChannel' = Null
  /\ reqs' = BagAdd(reqs, Req("dm", Null, u))

FetchChannelMessages(c) ==
  /\ StartChannelFetch(c)
  /\ last' = [op |-> "fetchChannelMessages"]
  /\ UNCHANGED <<unreadCount, srvMsgs, sockVars, taskVars, apiVars, typingVars, authVars>>

FetchDirectMessages(u) ==
  /\ StartDirectFetch(u)
  /\ last' = [op |-> "fetchDirectMessages"]
  /\ UNCHANGED <<unreadCount, srvMsgs, sockVars, taskVars, apiVars, typingVars, authVars>>

\* setActiveChannel(channel | null)
SetActiveChannel(c) ==
  /\ socket' = IF activeChannel # Null
               THEN MgrEmit(socket, "channel:leave", activeChannel) ELSE socket
  /\ IF c # Null THEN StartChannelFetch(c)
     ELSE /\ activeChannel' = Null /\ activeRecipient' = Null
          /\ UNCHANGED <<messages, isLoading, reqs>>
  /\ last' = [op |-> "setActiveChannel",
              prev |-> IF activeRecipient # Null THEN "recipient" ELSE "other",
              sent |-> Transmitted(socket,
                         IF activeChannel # Null
                         THEN << <<"channel:leave", activeChannel>> >> ELSE <<>>)]
  /\ UNCHANGED <<unreadCount, srvMsgs, listeners, orphans, taskVars, apiVars, typingVars, authVars>>

\* setActiveRecipient(userId | null)
SetActiveRecipient(u) ==
  /\ IF u # Null THEN StartDirectFetch(u)
     ELSE /\ activeRecipient' = Null /\ activeChannel' = Null
          /\ UNCHANGED <<messages, isLoading, reqs>>
  /\ last' = [op |-> "setActiveRecipient",
              prev |-> IF activeChannel # Null THEN "channel" ELSE "other",
              sent |-> <<>>]
  /\ UNCHANGED <<unreadCount, srvMsgs, sockVars, taskVars, apiVars, typingVars, authVars>>

\* The await of a history fetch resolves.
FetchResolve(r) ==
  /\ BagIn(r, reqs) /\ r.kind \in {"channel", "dm"} /\ r.done
  /\ messages' = Listed(r.resp)
  /\ isLoading' = FALSE
  /\ socket' = IF r.kind = "channel"
               THEN MgrEmit(socket, "channel:join", r.channel) ELSE socket
  /\ reqs' = BagDel(reqs, r)
  /\ last' = [op |-> "fetchResolved",
              stale |-> IF r.kind = "channel" THEN r.channel # activeChannel
                        ELSE r.recipient # activeRecipient,
              sent |-> Transmitted(socket,
                         IF r.kind = "channel"
                         THEN << <<"channel:join", r.channel>> >> ELSE <<>>)]
  /\ UNCHANGED <<activeChannel, activeRecipient, unreadCount, srvMsgs,
                 listeners, orphans, taskVars, apiVars, typingVars, authVars>>

\* The await of a history fetch rejects.
FetchFail(r) ==
  /\ BagIn(r, reqs) /\ r.kind \in {"channel", "dm"}
  /\ isLoading' = FALSE
  /\ reqs' = BagDel(reqs, r)
  /\ last' = [op |-> "fetchFailed"]
  /\ UNCHANGED <<messages, activeChannel, activeRecipient, unreadCount, srvMsgs,
                 sockVars, taskVars, apiVars, typingVars, authVars>>

\* sendMessage(data) up to its await: POST /messages.
SendMessage(c, u) ==
  /\ CanIssue
  /\ reqs' = BagAdd(reqs, Req("post", c, u))
  /\ last' = [op |-> "sendMessage"]
  /\ UNCHANGED <<messages, activeChannel, activeRecipient, isLoading, unreadCount,
                 srvMsgs, sockVars, taskVars, apiVars, typingVars, authVars>>

\* The POST resolves with the stored message.
SendResolve(r) ==
  /\ BagIn(r, reqs) /\ r.kind = "post" /\ r.done
  /\ \E i \in r.resp :
       /\ messages' = SentTo(messages, Msg(i))
       /\ last' = [op |-> "sendResolved", id |-> i,
                   case |-> IF HasId(messages, i) THEN "dup" ELSE "new"]
  /\ reqs' = BagDel(reqs, r)
  /\ UNCHANGED <<activeChannel, activeRecipient, isLoading, unreadCount, srvMsgs,
                 sockVars, taskVars, apiVars, typingVars, authVars>>

\* The POST rejects: the error is logged and thrown to the caller.
SendFail(r) ==
  /\ BagIn(r, reqs) /\ r.kind = "post"
  /\ reqs' = BagDel(reqs, r)
  /\ last' = [op |-> "sendFailed"]
  /\ UNCHANGED <<messages, activeChannel, activeRecipient, isLoading, unreadCount,
                 srvMsgs, sockVars, taskVars, apiVars, typingVars, authVars>>

\* fetchUnreadCount() up to its await.
StartUnreadFetch ==
  /\ CanIssue
  /\ reqs' = BagAdd(reqs, UnreadReq)

FetchUnreadCount ==
  /\ StartUnreadFetch
  /\ last' = [op |-> "fetchUnreadCount"]
  /\ UNCHANGED <<messages, activeChannel, activeRecipient, isLoading, unreadCount,
                 srvMsgs, sockVars, taskVars, apiVars, typingVars, authVars>>

\* GET /messages/unread resolves: the counters are replaced by the response.
UnreadResolve ==
  /\ BagIn(UnreadReq, reqs)
  /\ unreadCount' = UnreadOnServer(srvMsgs)
  /\ reqs' = BagDel(reqs, UnreadReq)
  /\ last' = [op |-> "unreadResolved"]
  /\ UNCHANGED <<messages, activeChannel, activeRecipient, isLoading, srvMsgs,
                 sockVars, taskVars, apiVars, typingVars, authVars>>

\* GET /messages/unread rejects: logged, nothing else.
UnreadFail ==
  /\ BagIn(UnreadReq, reqs)
  /\ reqs' = BagDel(reqs, UnreadReq)
  /\ last' = [op |-> "unreadFailed"]
  /\ UNCHANGED <<messages, activeChannel, activeRecipient, isLoading, unreadCount,
                 srvMsgs, sockVars, taskVars, apiVars, typingVars, authVars>>

\* addMessage(message): the live-event entry point, for a message the server
\* stores.
AddMessage(m) ==
  /\ m.id \in srvMsgs
  /\ messages' = AddedTo(messages, m, activeChannel, activeRecipient)
  /\ StartUnreadFetch
  /\ last' = [op |-> "addMessage", id |-> m.id,
              case |-> IF ~InScope(m, activeChannel, activeRecipient) THEN "filtered"
                       ELSE IF HasId(messages, m.id) THEN "dup" ELSE "new"]
  /\ UNCHANGED <<activeChannel, activeRecipient, isLoading, unreadCount, srvMsgs,
                 sockVars, taskVars, apiVars, typingVars, authVars>>

\* ---- the backend

\* The server handles a history fetch: it answers with what it stores now.
ServerFetch(r) ==
  /\ BagIn(r, reqs) /\ r.kind \in {"channel", "dm"} /\ ~r.done
  /\ reqs' = BagSwap(reqs, r, Answered(r, History(r, srvMsgs)))
  /\ last' = [op |-> "server"]
  /\ UNCHANGED <<messages, activeChannel, activeRecipient, isLoading, unreadCount,
                 srvMsgs, sockVars, taskVars, apiVars, typingVars, authVars>>

\* The server handles a POST /messages: it stores a new message of this user
\* for the posted channel or recipient and answers with it.
ServerPost(r) ==
  /\ BagIn(r, reqs) /\ r.kind = "post" /\ ~r.done
  /\ \E i \in MsgIds \ srvMsgs :
       /\ Msg(i).sender = Me
       /\ Msg(i).channel = r.channel /\ Msg(i).recipient = r.recipient
       /\ srvMsgs' = srvMsgs \cup {i}
       /\ reqs' = BagSwap(reqs, r, Answered(r, {i}))
  /\ last' = [op |-> "server"]
  /\ UNCHANGED <<messages, activeChannel, activeRecipient, isLoading, unreadCount,
                 sockVars, taskVars, apiVars, typingVars, authVars>>

\* The server stores a message that did not come from this client: another
\* user's, or this user's from another tab.
ServerStores(i) ==
  /\ i \in MsgIds \ srvMsgs
  /\ srvMsgs' = srvMsgs \cup {i}
  /\ last' = [op |-> "server"]
  /\ UNCHANGED <<messages, activeChannel, activeRecipient, isLoading, unreadCount,
                 reqs, sockVars, taskVars, apiVars, typingVars, authVars>>

Scopes == (Channels \X {Null}) \cup ({Null} \X Users)

ReqsInFlight == BagToSet(reqs)

MsgNext ==
  \/ \E c \in Channels : FetchChannelMessages(c)
  \/ \E u \in Users : FetchDirectMessages(u)
  \/ \E c \in Channels \cup {Null} : SetActiveChannel(c)
  \/ \E u \in Users \cup {Null} : SetActiveRecipient(u)
  \/ \E r \in ReqsInFlight : FetchResolve(r)
  \/ \E r \in ReqsInFlight : FetchFail(r)
  \/ \E sc \in Scopes : SendMessage(sc[1], sc[2])
  \/ \E r \in ReqsInFlight : SendResolve(r)
  \/ \E r \in ReqsInFlight : SendFail(r)
  \/ FetchUnreadCount
  \/ UnreadResolve
  \/ UnreadFail
  \/ \E i \in MsgIds : AddMessage(Msg(i))
  \/ \E r \in ReqsInFlight : ServerFetch(r)
  \/ \E r \in ReqsInFlight : ServerPost(r)
  \/ \E i \in MsgIds : ServerStores(i)

\* ======================================================================
\* Task store: useTaskStore, with the backend's /tasks endpoints
\* ======================================================================

\* A Task as far as the store's operations tell tasks apart: its id, its
\* status and its comments (their number). On the server a deleted task keeps
\* its row with status "deleted".
Statuses == {"todo", "done"}
TaskIds  == 1..MaxTasks

NoTask == [id |-> 0, status |-> Null, comments |-> 0]

Mutations == {"create", "update", "delete", "comment", "status"}
Reads     == {"fetchTasks", "fetchMy", "fetchById"}
Lists     == {"fetchTasks", "fetchMy"}

\* A request of the task store: done once the server has handled it, resp the
\* tasks of its response.
TaskReq(kind, id, arg) ==
  [kind |-> kind, id |-> id, arg |-> arg, done |-> FALSE, resp |-> <<>>]

CanIssueTask == BagCardinality(treqs) < MaxReqs /\ taskCalls < MaxCalls

\* The ids a caller can name are ids the server has handed out (0: no id, for
\* the operations that take none).
Assigned(id) == id <= Len(srvTasks)

OnServer(id) == id \in 1..Len(srvTasks) /\ srvTasks[id].status # "deleted"

\* GET /tasks: the stored tasks, newest first.
RECURSIVE Listing(_)
Listing(n) ==
  IF n = 0 THEN <<>>
  ELSE IF srvTasks[n].status = "deleted" THEN Listing(n - 1)
  ELSE <<srvTasks[n]>> \o Listing(n - 1)

\* ---- what a resolved mutation does to the cache

\* createTask that forgets ...state.tasks.
CreatedAlone(ts, t) == <<t>>

\* createTask: [newTask, ...state.tasks]
Created(ts, t) == <<t>> \o ts

\* The same map, adding the task when no entry has the id.
ReplacedOrAdded(ts, id, t) ==
  IF \E i \in 1..Len(ts) : ts[i].id = id
  THEN [i \in 1..Len(ts) |-> IF ts[i].id = id THEN t ELSE ts[i]]
  ELSE Append(ts, t)

\* The same map behind a stale-completion guard: a response that carries
\* fewer comments than the cached task is taken to be older and dropped.
ReplacedIfNewer(ts, id, t) ==
  [i \in 1..Len(ts) |->
     IF ts[i].id = id /\ t.comments >= ts[i].comments THEN t ELSE ts[i]]

\* updateTask, addComment, updateTaskStatus:
\* state.tasks.map((t) => (t._id === taskId ? updatedTask : t))
Replaced(ts, id, t) == [i \in 1..Len(ts) |-> IF ts[i].id = id THEN t ELSE ts[i]]

\* ... and state.currentTask?._id === taskId ? updatedTask : state.currentTask
ReplacedCurrent(cur, id, t) == IF cur.id = id THEN t ELSE cur

\* deleteTask: state.tasks.filter((t) => t._id !== taskId)
RECURSIVE Removed(_, _)
Removed(ts, id) ==
  IF ts = <<>> THEN <<>>
  ELSE IF Head(ts).id = id THEN Removed(Tail(ts), id)
  ELSE <<Head(ts)>> \o Removed(Tail(ts), id)

\* deleteTask that leaves currentTask alone.
RemovedCurrentKept(cur, id) == cur

\* ... and state.currentTask?._id === taskId ? null : state.currentTask
RemovedCurrent(cur, id) == IF cur.id = id THEN NoTask ELSE cur

\* ---- the store's operations, each up to its await

\* A mutating operation starts: the request goes out, the store is not touched.
IssueMutation(kind, id, arg) ==
  /\ CanIssueTask /\ Assigned(id)
  /\ taskCalls' = taskCalls + 1
  /\ treqs' = BagAdd(treqs, TaskReq(kind, id, arg))
  /\ last' = [op |-> "issue", kind |-> kind]
  /\ UNCHANGED <<tasks, currentTask, taskLoading, taskError, pagination,
                 srvTasks, sockVars, msgVars, apiVars, typingVars, authVars>>

\* createTask(data): POST /tasks
CreateTask(s) == IssueMutation("create", 0, s)

\* updateTask(taskId, updates): PATCH /tasks/:id
UpdateTask(id, s) == IssueMutation("update", id, s)

\* deleteTask(taskId): DELETE /tasks/:id
DeleteTask(id) == IssueMutation("delete", id, Null)

\* addComment(taskId, content, mentions): POST /tasks/:id/comments
AddComment(id) == IssueMutation("comment", id, Null)

\* An optimistic updateTaskStatus: it patches the cached status before the
\* request is answered.
UpdateTaskStatusOptimistic(id, s) ==
  /\ CanIssueTask /\ Assigned(id)
  /\ taskCalls' = taskCalls + 1
  /\ treqs' = BagAdd(treqs, TaskReq("status", id, s))
  /\ tasks' = [i \in 1..Len(tasks) |->
                IF tasks[i].id = id THEN [tasks[i] EXCEPT !.status = s] ELSE tasks[i]]
  /\ last' = [op |-> "issue", kind |-> "status"]
  /\ UNCHANGED <<currentTask, taskLoading, taskError, pagination, srvTasks,
                 sockVars, msgVars, apiVars, typingVars, authVars>>

\* updateTaskStatus(taskId, status): PATCH /tasks/:id
UpdateTaskStatus(id, s) == IssueMutation("status", id, s)

\* A read starts: set({ isLoading: true, error: null }), then the request.
IssueRead(kind, id) ==
  /\ CanIssueTask /\ Assigned(id)
  /\ taskCalls' = taskCalls + 1
  /\ taskLoading' = TRUE
  /\ taskError' = Null
  /\ treqs' = BagAdd(treqs, TaskReq(kind, id, Null))
  /\ last' = [op |-> "issue", kind |-> kind]
  /\ UNCHANGED <<tasks, currentTask, pagination, srvTasks, sockVars, msgVars, apiVars, typingVars, authVars>>

\* fetchTasks(filters): GET /tasks
FetchTasks == IssueRead("fetchTasks", 0)

\* fetchMyTasks(): GET /tasks/my
FetchMyTasks == IssueRead("fetchMy", 0)

\* fetchTaskById(taskId): GET /tasks/:id
FetchTaskById(id) == IssueRead("fetchById", id)

\* ---- the awaits resolve or reject

\* History: r is the second of two updateTask / updateTaskStatus calls on one
\* id that were in flight together and resolve one right after the other.
SecondOfTwo(r) ==
  /\ r.kind \in {"update", "status"}
  /\ last.op = "resolved" /\ last.kind \in {"update", "status"}
  /\ last.id = r.id

\* The await of a mutating operation resolves: the cache is patched from the
\* response.
MutationResolve(r) ==
  /\ BagIn(r, treqs) /\ r.kind \in Mutations /\ r.done
  /\ tasks' = CASE r.kind = "create" -> Created(tasks, r.resp[1])
                [] r.kind = "delete" -> Removed(tasks, r.id)
                [] OTHER -> Replaced(tasks, r.id, r.resp[1])
  /\ currentTask' = CASE r.kind = "create" -> currentTask
                      [] r.kind = "delete" -> RemovedCurrent(currentTask, r.id)
                      [] OTHER -> ReplacedCurrent(currentTask, r.id, r.resp[1])
  /\ treqs' = BagDel(treqs, r)
  /\ last' = [op |-> "resolved", kind |-> r.kind, id |-> r.id,
              second |-> SecondOfTwo(r)]
  /\ UNCHANGED <<taskLoading, taskError, pagination, srvTasks, taskCalls, sockVars, msgVars, apiVars, typingVars, authVars>>

\* The await of a mutating operation rejects: throw new Error(message), the
\* store is not touched.
MutationFail(r) ==
  /\ BagIn(r, treqs) /\ r.kind \in Mutations
  /\ treqs' = BagDel(treqs, r)
  /\ last' = [op |-> "failed", kind |-> r.kind, thrown |-> TRUE]
  /\ UNCHANGED <<tasks, currentTask, taskLoading, taskError, pagination,
                 srvTasks, taskCalls, sockVars, msgVars, apiVars, typingVars, authVars>>

\* The await of a read resolves.
ReadResolve(r) ==
  /\ BagIn(r, treqs) /\ r.kind \in Reads /\ r.done
  /\ IF r.kind \in Lists
     THEN /\ tasks' = r.resp
          /\ pagination' = Len(r.resp)
          /\ UNCHANGED currentTask
     ELSE /\ currentTask' = r.resp[1]
          /\ UNCHANGED <<tasks, pagination>>
  /\ taskLoading' = FALSE
  /\ treqs' = BagDel(treqs, r)
  /\ last' = [op |-> "resolved", kind |-> r.kind, id |-> r.id]
  /\ UNCHANGED <<taskError, srvTasks, taskCalls, sockVars, msgVars, apiVars, typingVars, authVars>>

\* A read whose catch also empties the list.
ReadFailClearing(r) ==
  /\ BagIn(r, treqs) /\ r.kind \in Reads
  /\ taskError' = "error"
  /\ taskLoading' = FALSE
  /\ tasks' = <<>>
  /\ treqs' = BagDel(treqs, r)
  /\ last' = [op |-> "failed", kind |-> r.kind, thrown |-> FALSE]
  /\ UNCHANGED <<currentTask, pagination, srvTasks, taskCalls, sockVars, msgVars,
                 apiVars, typingVars, authVars>>

\* The await of a read rejects: set({ error: message, isLoading: false }).
ReadFail(r) ==
  /\ BagIn(r, treqs) /\ r.kind \in Reads
  /\ taskError' = "error"
  /\ taskLoading' = FALSE
  /\ treqs' = BagDel(treqs, r)
  /\ last' = [op |-> "failed", kind |-> r.kind, thrown |-> FALSE]
  /\ UNCHANGED <<tasks, currentTask, pagination, srvTasks, taskCalls, sockVars, msgVars, apiVars, typingVars, authVars>>

\* ---- the backend

\* The task table after the server has applied request r.
Applied(r) ==
  CASE r.kind = "create" ->
         Append(srvTasks, [id |-> Len(srvTasks) + 1, status |-> r.arg, comments |-> 0])
    [] r.kind \in {"update", "status"} -> [srvTasks EXCEPT ![r.id].status = r.arg]
    [] r.kind = "comment" -> [srvTasks EXCEPT ![r.id].comments = @ + 1]
    [] r.kind = "delete" ->
         [srvTasks EXCEPT ![r.id] = [id |-> r.id, status |-> "deleted", comments |-> 0]]
    [] OTHER -> srvTasks

\* The server handles a request of the task store. A request for a task it
\* does not store is not handled here: it can only reject.
ServerTask(r) ==
  /\ BagIn(r, treqs) /\ ~r.done
  /\ r.kind = "create" => Len(srvTasks) < MaxTasks
  /\ r.kind \notin {"create"} \cup Lists => OnServer(r.id)
  /\ srvTasks' = Applied(r)
  /\ treqs' = BagSwap(treqs, r,
       [r EXCEPT !.done = TRUE,
                 !.resp = CASE r.kind = "create" -> <<Applied(r)[Len(srvTasks) + 1]>>
                            [] r.kind = "delete" -> <<>>
                            [] r.kind \in Lists -> Listing(Len(srvTasks))
                            [] OTHER -> <<Applied(r)[r.id]>>])
  /\ last' = [op |-> "server"]
  /\ UNCHANGED <<tasks, currentTask, taskLoading, taskError, pagination,
                 taskCalls, sockVars, msgVars, apiVars, typingVars, authVars>>

TaskReqsInFlight == BagToSet(treqs)

TaskNext ==
  \/ \E s \in Statuses : CreateTask(s)
  \/ \E id \in TaskIds, s \in Statuses : UpdateTask(id, s)
  \/ \E id \in TaskIds : DeleteTask(id)
  \/ \E id \in TaskIds : AddComment(id)
  \/ \E id \in TaskIds, s \in Statuses : UpdateTaskStatus(id, s)
  \/ FetchTasks
  \/ FetchMyTasks
  \/ \E id \in TaskIds : FetchTaskById(id)
  \/ \E r \in TaskReqsInFlight : MutationResolve(r)
  \/ \E r \in TaskReqsInFlight : MutationFail(r)
  \/ \E r \in TaskReqsInFlight : ReadResolve(r)
  \/ \E r \in TaskReqsInFlight : ReadFail(r)
  \/ \E r \in TaskReqsInFlight : ServerTask(r)

\* ======================================================================
\* Remote client: the axios instance api with its interceptors
\* ======================================================================

Tokens   == {"t1", "t2"}
Paths    == {"/login", "/tasks"}
HttpFail == {401, 500}

\* localStorage.getItem('auth-storage'): no entry (Null), an entry whose
\* state.token is a token, or an entry whose state.token is null.
NoToken == "notoken"

\* The bearer token a request is sent with: the request interceptor's, from
\* the stored entry, or else the one of the instance's default headers.
Bearer(storage, default) == IF storage \in Tokens THEN storage ELSE default

\* A call through api. state is "sent" (on the wire), "setup" (an exception
\* before the request left), "lost" (no response received) or "responded"
\* (status and body are the response's).
ApiReq(bearer, state) ==
  [bearer |-> bearer, state |-> state, status |-> 0, body |-> Null]

\* The values typeof tells apart in a response body: a JSON object, a string
\* (text, an HTML error page, an empty body) or another JSON value (a number,
\* a boolean).
Bodies == {"object", "string", "number"}

\* The error interceptor's normalisation of error.response: status and
\* data.error. Only a string body is wrapped; an object is the server's own
\* and any other value is left as it is, with no error field to read.
Normalized(r) ==
  CASE r.state = "responded" ->
         [status |-> r.status,
          error |-> CASE r.body = "string" -> "Server error: statusText"
                      [] r.body = "object" -> "server's"
                      [] OTHER -> Null]
    [] r.state = "lost" -> [status |-> 0, error |-> "No response from server"]
    [] OTHER -> [status |-> 0, error |-> "error.message"]

\* The error interceptor without its 401 branch.
StorageAfterErrorKept(storage, r) == storage

\* The error interceptor's 401 branch on the stored credential.
StorageAfterError(storage, r) ==
  IF r.state = "responded" /\ r.status = 401 THEN Null ELSE storage

\* The localStorage.removeItem('auth-storage') calls the interceptor makes.
Removals(r) == IF r.state = "responded" /\ r.status = 401 THEN 1 ELSE 0

\* ... and on the location: redirect to /login if not already there.
PathAfterError(path, r) ==
  IF r.state = "responded" /\ r.status = 401 /\ path # "/login"
  THEN "/login" ELSE path

\* window.location.href = '/login' starts a navigation: the document is
\* replaced some time later, and runs on until then.
Redirects(path, r) == r.state = "responded" /\ r.status = 401 /\ path # "/login"

\* History: the token the 401 branch removed from storage.
Revoked(old, storage, r) ==
  IF Removals(r) = 1 /\ storage \in Tokens THEN storage ELSE old

CanIssueApi == BagCardinality(apiReqs) + BagCardinality(authReqs) < MaxReqs

\* api.get / api.post / ...: the request interceptor runs and the request
\* leaves, or an exception is raised while it is set up.
ApiCall(state) ==
  /\ CanIssueApi
  /\ apiReqs' = BagAdd(apiReqs, ApiReq(Bearer(authStorage, defaultAuth), state))
  /\ last' = [op |-> "apiCall"]
  /\ UNCHANGED <<authStorage, pathname, sockVars, msgVars,
                 taskVars, typingVars, authVars>>

\* The server answers a request on the wire.
ApiServer(r, status, body) ==
  /\ BagIn(r, apiReqs) /\ r.state = "sent"
  /\ apiReqs' = BagSwap(apiReqs, r,
                  [r EXCEPT !.state = "responded", !.status = status, !.body = body])
  /\ last' = [op |-> "server"]
  /\ UNCHANGED <<authStorage, pathname, sockVars, msgVars,
                 taskVars, typingVars, authVars>>

\* The request gets no response.
ApiLost(r) ==
  /\ BagIn(r, apiReqs) /\ r.state = "sent"
  /\ apiReqs' = BagSwap(apiReqs, r, [r EXCEPT !.state = "lost"])
  /\ last' = [op |-> "server"]
  /\ UNCHANGED <<authStorage, pathname, sockVars, msgVars,
                 taskVars, typingVars, authVars>>

\* The response interceptor's first function: (response) => response.
ApiFulfilled(r) ==
  /\ BagIn(r, apiReqs) /\ r.state = "responded" /\ r.status = 200
  /\ apiReqs' = BagDel(apiReqs, r)
  /\ last' = [op |-> "fulfilled", req |-> r]
  /\ UNCHANGED <<authStorage, pathname, sockVars, msgVars,
                 taskVars, typingVars, authVars>>

\* The response interceptor's second function: (error) => { ... return
\* Promise.reject(error) }. removed counts its localStorage.removeItem calls.
Intercepted(r) ==
  /\ BagIn(r, apiReqs)
  /\ r.state \in {"setup", "lost"} \/ (r.state = "responded" /\ r.status # 200)
  /\ authStorage' = StorageAfterError(authStorage, r)
  /\ pathname' = PathAfterError(pathname, r)
  /\ apiReqs' = BagDel(apiReqs, r)
  /\ last' = [op |-> "rejected", req |-> r, error |-> Normalized(r),
              removed |-> Removals(r)]
  /\ UNCHANGED <<sockVars, msgVars, taskVars, typingVars>>

\* ... of the api instance on its own: the document and the auth store are
\* left out.
ApiRejected(r) == Intercepted(r) /\ UNCHANGED authVars

\* ... in the document: a redirect starts a navigation.
RejectedInDocument(r) ==
  /\ Intercepted(r)
  /\ navigating' = (navigating \/ Redirects(pathname, r))
  /\ revoked' = Revoked(revoked, authStorage, r)
  /\ UNCHANGED <<user, token, isAuthenticated, authLoading, defaultAuth, authReqs>>

\* The auth store's persist middleware writes the entry: { token: state.token }.
Persist(t) ==
  /\ authStorage' = t
  /\ last' = [op |-> "persist"]
  /\ UNCHANGED <<pathname, apiReqs, sockVars, msgVars,
                 taskVars, typingVars, authVars>>

\* The user moves to another route.
Navigate(p) ==
  /\ pathname # p
  /\ pathname' = p
  /\ last' = [op |-> "navigate"]
  /\ UNCHANGED <<authStorage, apiReqs, sockVars, msgVars,
                 taskVars, typingVars, authVars>>

\* The navigation the 401 branch started completes: the old document and
\* its requests are gone, the new one starts from the initial state of the
\* modules, and persist rehydrates token from the stored entry.
Reload ==
  /\ navigating
  /\ navigating' = FALSE
  /\ apiReqs' = EmptyBag /\ authReqs' = EmptyBag
  /\ user' = Null /\ isAuthenticated' = FALSE /\ authLoading' = TRUE
  /\ token' = Bearer(authStorage, Null)
  /\ defaultAuth' = Null
  /\ last' = [op |-> "reload"]
  /\ UNCHANGED <<authStorage, pathname, revoked, sockVars, msgVars, taskVars,
                 typingVars>>

ApiReqsInFlight == BagToSet(apiReqs)

ApiNext ==
  \/ \E st \in {"sent", "setup"} : ApiCall(st)
  \/ \E r \in ApiReqsInFlight, status \in {200} \cup HttpFail,
        body \in Bodies : ApiServer(r, status, body)
  \/ \E r \in ApiReqsInFlight : ApiLost(r)
  \/ \E r \in ApiReqsInFlight : ApiFulfilled(r)
  \/ \E r \in ApiReqsInFlight : ApiRejected(r)
  \/ \E t \in Tokens \cup {NoToken} : Persist(t)
  \/ \E p \in Paths : Navigate(p)

\* ======================================================================
\* Auth store: useAuthStore behind persist, over the api instance
\* ======================================================================

\* What persist writes to 'auth-storage' after a set: { token: state.token }.
Stored(t) == IF t = Null THEN NoToken ELSE t

SignIns == {"login", "register"}

\* A request of the auth store, as it leaves through the request interceptor.
AuthReq(kind, bearer) ==
  [kind |-> kind, bearer |-> bearer, state |-> "sent", status |-> 0,
   body |-> Null, grant |-> Null]

\* login / register up to the await: set({ isLoading: true, error: null }),
\* which persist writes out, then POST /auth/login or /auth/register.
SignIn(kind) ==
  /\ CanIssueApi
  /\ authLoading' = TRUE
  /\ authStorage' = Stored(token)
  /\ authReqs' = BagAdd(authReqs, AuthReq(kind, Bearer(Stored(token), defaultAuth)))
  /\ last' = [op |-> kind]
  /\ UNCHANGED <<user, token, isAuthenticated, defaultAuth, navigating, revoked,
                 pathname, apiReqs, sockVars, msgVars, taskVars, typingVars>>

\* login(email, password)
Login == SignIn("login")

\* register(data)
Register == SignIn("register")

\* logout() up to its await: POST /auth/logout.
Logout ==
  /\ CanIssueApi
  /\ authReqs' = BagAdd(authReqs, AuthReq("logout", Bearer(authStorage, defaultAuth)))
  /\ last' = [op |-> "logout"]
  /\ UNCHANGED <<user, token, isAuthenticated, authLoading, defaultAuth, navigating,
                 revoked, apiVars, sockVars, msgVars, taskVars, typingVars>>

\* checkAuth() up to its await: without a token only set({ isLoading: false });
\* with one, the default header is set and GET /auth/me goes out.
CheckAuth ==
  /\ token # Null => CanIssueApi
  /\ IF token = Null
     THEN /\ authLoading' = FALSE
          /\ authStorage' = Stored(token)
          /\ UNCHANGED <<defaultAuth, authReqs>>
     ELSE /\ defaultAuth' = token
          /\ authReqs' = BagAdd(authReqs, AuthReq("me", Bearer(authStorage, token)))
          /\ UNCHANGED <<authLoading, authStorage>>
  /\ last' = [op |-> "checkAuth"]
  /\ UNCHANGED <<user, token, isAuthenticated, navigating, revoked, pathname,
                 apiReqs, sockVars, msgVars, taskVars, typingVars>>

\* The server answers a request of the auth store; a successful login or
\* register carries the token it grants.
AuthServer(r, status, grant) ==
  /\ BagIn(r, authReqs) /\ r.state = "sent"
  /\ authReqs' = BagSwap(authReqs, r,
       [r EXCEPT !.state = "responded", !.status = status, !.body = "object",
                 !.grant = IF r.kind \in SignIns /\ status = 200 THEN grant ELSE Null])
  /\ last' = [op |-> "server"]
  /\ UNCHANGED <<user, token, isAuthenticated, authLoading, defaultAuth, navigating,
                 revoked, apiVars, sockVars, msgVars, taskVars, typingVars>>

\* What the response interceptor's error function does to the document when
\* the request r of the auth store is rejected.
AuthIntercepted(r) ==
  /\ pathname' = PathAfterError(pathname, r)
  /\ navigating' = (navigating \/ Redirects(pathname, r))
  /\ revoked' = Revoked(revoked, authStorage, r)

\* The await of login / register resolves.
SignInResolve(r) ==
  /\ BagIn(r, authReqs) /\ r.kind \in SignIns
  /\ r.state = "responded" /\ r.status = 200
  /\ defaultAuth' = r.grant
  /\ user' = "user" /\ token' = r.grant
  /\ isAuthenticated' = TRUE /\ authLoading' = FALSE
  /\ authStorage' = Stored(r.grant)
  /\ revoked' = Null
  /\ authReqs' = BagDel(authReqs, r)
  /\ last' = [op |-> "authResolved", kind |-> r.kind]
  /\ UNCHANGED <<navigating, pathname, apiReqs, sockVars, msgVars, taskVars,
                 typingVars>>

\* The await of login / register rejects: the interceptor runs, then
\* set({ error: message, isLoading: false }), which persist writes out.
SignInReject(r) ==
  /\ BagIn(r, authReqs) /\ r.kind \in SignIns
  /\ r.state = "responded" /\ r.status # 200
  /\ AuthIntercepted(r)
  /\ authLoading' = FALSE
  /\ authStorage' = Stored(token)
  /\ authReqs' = BagDel(authReqs, r)
  /\ last' = [op |-> "authRejected", kind |-> r.kind]
  /\ UNCHANGED <<user, token, isAuthenticated, defaultAuth, apiReqs, sockVars,
                 msgVars, taskVars, typingVars>>

\* The await of checkAuth resolves:
\* set({ user: response.data.user, isAuthenticated: true, isLoading: false }).
CheckAuthResolve(r) ==
  /\ BagIn(r, authReqs) /\ r.kind = "me"
  /\ r.state = "responded" /\ r.status = 200
  /\ user' = "user"
  /\ isAuthenticated' = TRUE /\ authLoading' = FALSE
  /\ authStorage' = Stored(token)
  /\ authReqs' = BagDel(authReqs, r)
  /\ last' = [op |-> "authResolved", kind |-> r.kind]
  /\ UNCHANGED <<token, defaultAuth, navigating, revoked, pathname, apiReqs,
                 sockVars, msgVars, taskVars, typingVars>>

\* The state logout and checkAuth's catch leave: the default header deleted,
\* set({ user: null, token: null, isAuthenticated: false, isLoading: false }).
SignedOut ==
  /\ defaultAuth' = Null
  /\ user' = Null /\ token' = Null
  /\ isAuthenticated' = FALSE /\ authLoading' = FALSE
  /\ authStorage' = Stored(Null)

\* The await of checkAuth rejects.
CheckAuthReject(r) ==
  /\ BagIn(r, authReqs) /\ r.kind = "me"
  /\ r.state = "responded" /\ r.status # 200
  /\ AuthIntercepted(r)
  /\ SignedOut
  /\ authReqs' = BagDel(authReqs, r)
  /\ last' = [op |-> "authRejected", kind |-> r.kind]
  /\ UNCHANGED <<apiReqs, sockVars, msgVars, taskVars, typingVars>>

\* The await of logout settles: an error is ignored, the session is dropped
\* either way.
LogoutSettled(r) ==
  /\ BagIn(r, authReqs) /\ r.kind = "logout"
  /\ r.state = "responded"
  /\ AuthIntercepted(r)
  /\ SignedOut
  /\ authReqs' = BagDel(authReqs, r)
  /\ last' = [op |-> "loggedOut"]
  /\ UNCHANGED <<apiReqs, sockVars, msgVars, taskVars, typingVars>>

AuthReqsInFlight == BagToSet(authReqs)

\* The auth store with the other stores' calls through api reduced to one
\* kind of call, answered with a JSON object.
AuthNext ==
  \/ Login
  \/ Register
  \/ Logout
  \/ CheckAuth
  \/ \E r \in AuthReqsInFlight, status \in {200} \cup HttpFail, g \in Tokens :
       AuthServer(r, status, g)
  \/ \E r \in AuthReqsInFlight : SignInResolve(r)
  \/ \E r \in AuthReqsInFlight : SignInReject(r)
  \/ \E r \in AuthReqsInFlight : CheckAuthResolve(r)
  \/ \E r \in AuthReqsInFlight : CheckAuthReject(r)
  \/ \E r \in AuthReqsInFlight : LogoutSettled(r)
  \/ ApiCall("sent")
  \/ \E r \in ApiReqsInFlight, status \in {200} \cup HttpFail :
       ApiServer(r, status, "object")
  \/ \E r \in ApiReqsInFlight : ApiFulfilled(r)
  \/ \E r \in ApiReqsInFlight : RejectedInDocument(r)
  \/ \E p \in Paths : Navigate(p)
  \/ Reload

\* ======================================================================
\* Typing indicators: useMessageStore.setTyping and its timers
\* ======================================================================

\* { ...state.typingUsers, [userId]: isTyping }
WithFlag(flags, u, b) ==
  [v \in DOMAIN flags \cup {u} |-> IF v = u THEN b ELSE flags[v]]

\* typingUsers[u], undefined counting as not typing.
IsTyping(u) == u \in DOMAIN typingUsers /\ typingUsers[u]

\* A pending setTimeout callback: the user it clears and the seconds left.
Timer(u) == [user |-> u, left |-> TypingWindow]

\* Seconds counted up to one past the window.
Aged(n) == IF n < 0 THEN n ELSE IF n > TypingWindow THEN TypingWindow + 1 ELSE n + 1

\* What the history keeps of the calls for one user: n, the calls so far (2:
\* two or more); age, the seconds since the latest setTyping(u, true); gap,
\* the seconds between the latest two setTyping(u, true) with no
\* setTyping(u, false) between them. -1: there is none.
NoCalls == [n |-> 0, age |-> -1, gap |-> -1]

Logged(l, b) ==
  [n |-> IF l.n < 2 THEN l.n + 1 ELSE 2,
   age |-> IF b THEN 0 ELSE -1,
   gap |-> IF b THEN l.age ELSE -1]

\* setTyping without its setTimeout.
TimersAfterNone(ts, u, b) == ts

\* The timers setTyping(u, b) leaves pending: one more when b is true; none
\* is cancelled.
TimersAfter(ts, u, b) == IF b THEN BagAdd(ts, Timer(u)) ELSE ts

\* setTyping(userId, isTyping)
SetTyping(u, b) ==
  /\ b => BagCardinality(timers) < MaxTimers
  /\ typingUsers' = WithFlag(typingUsers, u, b)
  /\ timers' = TimersAfter(timers, u, b)
  /\ typingLog' = [typingLog EXCEPT ![u] = Logged(@, b)]
  /\ last' = [op |-> "setTyping", user |-> u]
  /\ UNCHANGED <<sockVars, msgVars, taskVars, apiVars, authVars>>

\* A timer's callback runs when its delay has elapsed: [userId]: false.
TypingExpired(t) ==
  /\ BagIn(t, timers) /\ t.left = 0
  /\ typingUsers' = WithFlag(typingUsers, t.user, FALSE)
  /\ timers' = BagDel(timers, t)
  /\ last' = [op |-> "typingExpired", user |-> t.user]
  /\ UNCHANGED <<typingLog, sockVars, msgVars, taskVars, apiVars, authVars>>

RECURSIVE Elapsed(_)
Elapsed(ts) ==
  IF ts = EmptyBag THEN EmptyBag
  ELSE LET t == CHOOSE x \in BagToSet(ts) : TRUE
           rest == [x \in BagToSet(ts) \ {t} |-> ts[x]]
       IN Elapsed(rest) (+) [x \in {[t EXCEPT !.left = @ - 1]} |-> ts[t]]

\* One second passes; a timer that is due runs before the clock moves on.
Tick ==
  /\ \A t \in BagToSet(timers) : t.left > 0
  /\ timers' = Elapsed(timers)
  /\ typingLog' = [u \in Users |->
                     [typingLog[u] EXCEPT !.age = Aged(@)]]
  /\ last' = [op |-> "tick"]
  /\ UNCHANGED <<typingUsers, sockVars, msgVars, taskVars, apiVars, authVars>>

TypingNext ==
  \/ \E u \in Users, b \in BOOLEAN : SetTyping(u, b)
  \/ \E t \in BagToSet(timers) : TypingExpired(t)
  \/ Tick

SockNext ==
  \/ Connect
  \/ Disconnect
  \/ \E k \in HandlerKeys : On(k)
  \/ \E k \in HandlerKeys : Off(k)
  \/ \E ev \in EmitEvents, ch \in Channels : Emit(ev, ch)
  \/ SocketUp
  \/ SocketError
  \/ SocketDrop
  \/ \E o \in BagToSet(orphans) : OrphanStep(o)
  \/ \E e \in Events : Receive(e)
  \/ \E o \in BagToSet(orphans), e \in Events : OrphanReceive(o, e)

\* ======================================================================
\* Channel membership: the message store over the push channel
\* ======================================================================

\* useSocket's effect connects once the session is authenticated; the user
\* selects conversations while the connection is up, and it stays up.
ChanNext ==
  \/ ~HasSocket(socket) /\ Connect
  \/ SocketUp
  \/ IsConnected /\ \E c \in Channels \cup {Null} : SetActiveChannel(c)
  \/ IsConnected /\ \E u \in Users \cup {Null} : SetActiveRecipient(u)
  \/ \E r \in ReqsInFlight : ServerFetch(r)
  \/ \E r \in ReqsInFlight : FetchResolve(r)

\* The same with a transport that can drop and come back, and a user who
\* selects channels whatever the state of the connection.
LinkNext ==
  \/ ~HasSocket(socket) /\ Connect
  \/ SocketUp
  \/ SocketDrop
  \/ \E c \in Channels \cup {Null} : SetActiveChannel(c)
  \/ \E r \in ReqsInFlight : ServerFetch(r)
  \/ \E r \in ReqsInFlight : FetchResolve(r)

Init ==
  /\ socket = NoSocket /\ listeners = {} /\ orphans = EmptyBag
  /\ messages = <<>> /\ activeChannel = Null /\ activeRecipient = Null
  /\ isLoading = FALSE /\ unreadCount = 0
  /\ srvMsgs = {} /\ reqs = EmptyBag
  /\ tasks = <<>> /\ currentTask = NoTask /\ taskLoading = FALSE
  /\ taskError = Null /\ pagination = 0
  /\ srvTasks = <<>> /\ treqs = EmptyBag /\ taskCalls = 0
  /\ authStorage = Null /\ pathname = "/login" /\ apiReqs = EmptyBag
  /\ typingUsers = <<>> /\ timers = EmptyBag
  /\ typingLog = [u \in Users |-> NoCalls]
  /\ user = Null /\ token = Null /\ isAuthenticated = FALSE /\ authLoading = TRUE
  /\ defaultAuth = Null /\ authReqs = EmptyBag
  /\ navigating = FALSE /\ revoked = Null
  /\ last = [op |-> "init"]

SockSpec == Init /\ [][SockNext]_vars

Spec == Init /\ [][MsgNext]_vars

TaskSpec == Init /\ [][TaskNext]_vars

ApiSpec == Init /\ [][ApiNext]_vars

TypingSpec == Init /\ [][TypingNext]_vars

AuthSpec == Init /\ [][AuthNext]_vars

ChanSpec == Init /\ [][ChanNext]_vars

LinkSpec == Init /\ [][LinkNext]_vars

\* ======================================================================
\* Properties
\* ======================================================================

NoDirectMatch(m, rc) ==
  ~(m.recipient # Null /\ (m.recipient = rc \/ m.sender = rc))

\* C1: whichever of a sent message's POST completion and its 'message:new' echo
\* comes first, the message list holds exactly one entry with the message's id
\* once either has been applied.
C1_OneCopyOfSentMessage ==
  (\/ last.op = "sendResolved"
   \/ last.op = "addMessage" /\ last.case # "filtered")
    => Count(messages, last.id) = 1

\* C2: addMessage(m) never adds an entry for an id the list already holds, and
\* a message of the active scope whose id the list does not hold is there
\* exactly once after the call: delivered again, it is not appended again.
C2_AddMessageDedups ==
  [][last'.op = "addMessage" =>
       Count(messages', last'.id) =
         IF HasId(messages, last'.id) THEN Count(messages, last'.id)
         ELSE IF InScope(Msg(last'.id), activeChannel, activeRecipient) THEN 1
         ELSE 0]_vars

\* C2 witness: a message of the active scope was delivered to addMessage when
\* the list already held it, and the list holds it once.
C2_Witness ==
  /\ last.op = "addMessage" /\ last.case = "dup"
  /\ Count(messages, last.id) = 1

\* C3: every message of the list belongs to the active scope.
C3_AllInActiveScope ==
  \A i \in 1..Len(messages) : InScope(messages[i], activeChannel, activeRecipient)

\* C4: with a channel active, addMessage of a message of another channel that
\* is no direct message with the active recipient leaves the list as it was
\* and starts exactly one GET /messages/unread.
C4_OtherChannelOnlyRefreshesUnread ==
  [][(/\ last'.op = "addMessage"
      /\ activeChannel # Null
      /\ Msg(last'.id).channel \notin {Null, activeChannel}
      /\ NoDirectMatch(Msg(last'.id), activeRecipient))
       => /\ messages' = messages
          /\ CopiesIn(UnreadReq, reqs') = CopiesIn(UnreadReq, reqs) + 1
          /\ BagCardinality(reqs') = BagCardinality(reqs) + 1]_vars

\* C4 witness: addMessage has just filtered out a message of a channel other
\* than the active one, and an unread fetch is in flight.
C4_Witness ==
  /\ last.op = "addMessage" /\ last.case = "filtered"
  /\ activeChannel # Null
  /\ Msg(last.id).channel \notin {Null, activeChannel}
  /\ BagIn(UnreadReq, reqs)

\* C5: at most one of activeChannel and activeRecipient is set; selecting a
\* recipient leaves no channel active and selecting a channel leaves no
\* recipient active, and no fetch completion changes that.
C5_OneActiveScope ==
  /\ activeChannel = Null \/ activeRecipient = Null
  /\ last.op = "setActiveRecipient" => activeChannel = Null
  /\ last.op = "setActiveChannel" => activeRecipient = Null

\* C5 witness: a recipient was selected while a channel was active.
C5_Witness ==
  /\ last.op = "setActiveRecipient" /\ last.prev = "channel"
  /\ activeRecipient # Null /\ activeChannel = Null

\* C6: at most one underlying connection is live (connecting, connected or
\* reconnecting) at any time.
C6_AtMostOneLiveConnection == LiveConnections <= 1

\* C7: every registered handler is attached to the socket the manager holds,
\* also when it was registered before that socket was made, and an inbound
\* event on the connected socket calls every handler registered for its name.
C7_RegisteredHandlersReceive ==
  /\ HasSocket(socket) => \A k \in listeners : socket.handlers[k] >= 1
  /\ (last.op = "receive" /\ last.current) =>
       \A k \in listeners : k[1] = last.event => last.calls[k[2]] >= 1

\* C7 witness: connect() has just made a socket and attached to it, once each,
\* the handlers that were registered before that socket existed.
C7_Witness ==
  /\ last.op = "connect" /\ last.created
  /\ listeners # {}
  /\ \A k \in listeners : socket.handlers[k] = 1

NothingQueued ==
  /\ socket.sendBuffer = <<>>
  /\ \A o \in BagToSet(orphans) : o.sendBuffer = <<>>

\* C8: emit while not connected changes nothing (nothing is transmitted and
\* nothing is buffered), no socket ever holds a buffered event, and the step
\* that establishes a connection transmits nothing.
C8_EmitWhileDisconnectedIsDropped ==
  /\ []NothingQueued
  /\ [][(last'.op = "emit" /\ ~IsConnected) => UNCHANGED sockVars]_vars
  /\ [][(~IsConnected /\ socket'.status = "connected") =>
          socket'.joined = socket.joined]_vars

\* C8 witness: emit was called while the socket was still connecting or
\* reconnecting.
C8_Witness ==
  /\ last.op = "emit" /\ ~last.connected
  /\ socket.status \in {"connecting", "reconnecting"}

\* C9: disconnect() leaves no live connection and an unchanged registry, and
\* changes nothing when there is no socket.
C9_DisconnectIdempotent ==
  [][last'.op = "disconnect" =>
       /\ LiveConnections' = 0
       /\ socket' = NoSocket
       /\ listeners' = listeners
       /\ ~HasSocket(socket) => UNCHANGED sockVars]_vars

\* C10: a mutating task operation (createTask, updateTask, deleteTask,
\* addComment, updateTaskStatus) does not change tasks or currentTask when it
\* is issued nor while the server handles its request; when its request fails
\* the cache is left as it was and the operation throws.
C10_MutationsNotOptimistic ==
  [][/\ (last'.op = "issue" /\ last'.kind \in Mutations)
          => UNCHANGED <<tasks, currentTask>>
     /\ last'.op = "server" => UNCHANGED <<tasks, currentTask>>
     /\ (last'.op = "failed" /\ last'.kind \in Mutations)
          => (UNCHANGED <<tasks, currentTask>> /\ last'.thrown)]_vars

\* C10 witness: a mutating operation has failed while the cache held a task
\* list and a current task.
C10_Witness ==
  /\ last.op = "failed" /\ last.kind \in Mutations
  /\ tasks # <<>> /\ currentTask # NoTask

\* The step in which the await of the task request r resolves.
TaskResolves(r) ==
  /\ BagIn(r, treqs) /\ r.done
  /\ treqs' = BagDel(treqs, r)
  /\ last'.op = "resolved"

HasTask(ts, id) == \E i \in 1..Len(ts) : ts[i].id = id

\* The list ts with only the status field of the entries with the id set to s.
StatusPatched(ts, id, s) ==
  [i \in 1..Len(ts) |-> IF ts[i].id = id THEN [ts[i] EXCEPT !.status = s] ELSE ts[i]]

\* C11: when updateTask(id, {status: s}) resolves against a cached task, the
\* list is the list before with only the status field of that task set to s:
\* every other task, every other field, the order and the length are as before.
C11_UpdatePatchesOnlyStatus ==
  [][\A r \in BagToSet(treqs) :
       (r.kind = "update" /\ TaskResolves(r) /\ HasTask(tasks, r.id))
         => tasks' = StatusPatched(tasks, r.id, r.arg)]_vars

\* C12: a call through api whose response has status 401 settles in one step
\* that removes the 'auth-storage' entry with exactly one removeItem, rejects
\* with one error carrying status 401, and leaves no request of that call
\* in flight: nothing is issued again.
C12_Unauthorized ==
  [][(last'.op \in {"fulfilled", "rejected"} /\ last'.req.status = 401) =>
       /\ last'.op = "rejected"
       /\ last'.removed = 1
       /\ authStorage' = Null
       /\ last'.error.status = 401
       /\ apiReqs' = BagDel(apiReqs, last'.req)]_vars

\* C12 witness: a call sent with a stored token was rejected for a 401 while
\* another call was still in flight, and the entry is gone.
C12_Witness ==
  /\ last.op = "rejected" /\ last.req.status = 401
  /\ last.req.bearer \in Tokens
  /\ authStorage = Null /\ apiReqs # EmptyBag

\* C13: when setTyping(u, true) is called again less than the window after a
\* first setTyping(u, true), with no setTyping(u, false) between them, the
\* flag of u is true for as long as the window of the second call has not
\* elapsed.
C13_SecondCallRestartsWindow ==
  \A u \in Users :
    (/\ typingLog[u].gap \in 1..(TypingWindow - 1)
     /\ typingLog[u].age \in 0..(TypingWindow - 1))
      => IsTyping(u)

TimerPending(u) == \E t \in BagToSet(timers) : t.user = u

OtherFlagsKept(u) ==
  \A v \in Users \ {u} :
    /\ (v \in DOMAIN typingUsers') = (v \in DOMAIN typingUsers)
    /\ v \in DOMAIN typingUsers => typingUsers'[v] = typingUsers[v]

\* C14: after one setTyping(u, true) and no other setTyping call for u, the
\* flag of u is true while the window has not elapsed and false once it has
\* elapsed and the timer has run; neither a setTyping call nor an auto-clear
\* changes the flag of another user.
C14_SingleCallWindow ==
  /\ [](\A u \in Users :
          (typingLog[u].n = 1 /\ typingLog[u].age >= 0) =>
            /\ typingLog[u].age < TypingWindow => IsTyping(u)
            /\ typingLog[u].age > TypingWindow => ~IsTyping(u)
            /\ (typingLog[u].age = TypingWindow /\ ~TimerPending(u)) => ~IsTyping(u))
  /\ [][last'.op \in {"setTyping", "typingExpired"} => OtherFlagsKept(last'.user)]_vars

\* C14 witness: the window of the only call for u1 has elapsed and its flag
\* was cleared, while u2, whose flag was set meanwhile, is still typing.
C14_Witness ==
  /\ typingLog["u1"].n = 1 /\ typingLog["u1"].age > TypingWindow
  /\ "u1" \in DOMAIN typingUsers /\ ~typingUsers["u1"]
  /\ IsTyping("u2")

\* The step issues one more GET /messages/unread.
UnreadFetchIssued == CopiesIn(UnreadReq, reqs') = CopiesIn(UnreadReq, reqs) + 1

\* C15: the step in which a sent message's POST resolves, and every
\* addMessage, issues a fresh GET /messages/unread; unreadCount changes only
\* when such a fetch resolves, to what the response carries.
C15_UnreadRefreshedAfterSendAndReceive ==
  [][/\ last'.op \in {"sendResolved", "addMessage"} => UnreadFetchIssued
     /\ unreadCount' # unreadCount =>
          (last'.op = "unreadResolved" /\ unreadCount' = UnreadOnServer(srvMsgs))]_vars

\* The step is the 'message:new' event of a direct message this user sent
\* (from another tab of the session) reaching addMessage.
OwnDirectMessageEvent ==
  /\ last'.op = "addMessage"
  /\ Msg(last'.id).sender = Me /\ Msg(last'.id).recipient # Null

AppendedByEvent == Count(messages', last'.id) > Count(messages, last'.id)

\* C16 as stated: the event appends the message if and only if the active
\* recipient equals the sender of the message.
C16_AppendedIffSenderActive ==
  [][OwnDirectMessageEvent =>
       (AppendedByEvent <=> activeRecipient = Msg(last'.id).sender)]_vars

\* C16: the event appends the message if and only if the active recipient is
\* the message's recipient or its sender and the cache does not hold the
\* message yet; once appended the message is there exactly once, and the
\* event issues no request but the unread-count fetch.
C16_AppendedIffConversationActive ==
  [][OwnDirectMessageEvent =>
       /\ AppendedByEvent <=>
            /\ activeRecipient \in {Msg(last'.id).recipient, Msg(last'.id).sender}
            /\ ~HasId(messages, last'.id)
       /\ AppendedByEvent => Count(messages', last'.id) = 1
       /\ reqs' = BagAdd(reqs, UnreadReq)]_vars

\* C16 witness: the event appended this user's direct message to the open
\* conversation with its recipient.
C16_Witness ==
  /\ last.op = "addMessage" /\ last.case = "new"
  /\ Msg(last.id).sender = Me /\ Msg(last.id).recipient # Null
  /\ activeRecipient = Msg(last.id).recipient
  /\ Count(messages, last.id) = 1

\* The step in which the task request r rejects.
TaskFails(r) ==
  /\ BagIn(r, treqs)
  /\ treqs' = BagDel(treqs, r)
  /\ last'.op = "failed"

\* The sequence without its k-th entry.
Without(seq, k) ==
  [i \in 1..(Len(seq) - 1) |-> IF i < k THEN seq[i] ELSE seq[i + 1]]

\* C17: when createTask resolves, the list is the list before with exactly one
\* entry added, the task of the response, which carries a server-assigned id
\* and the submitted status; the tasks cached before keep their order. When
\* createTask fails the length of the list is unchanged.
C17_CreateAddsOneEntry ==
  [][\A r \in BagToSet(treqs) :
       /\ (r.kind = "create" /\ TaskResolves(r)) =>
            /\ Len(tasks') = Len(tasks) + 1
            /\ \E k \in 1..Len(tasks') :
                 tasks'[k] = r.resp[1] /\ Without(tasks', k) = tasks
            /\ r.resp[1].id \in TaskIds /\ r.resp[1].status = r.arg
       /\ (r.kind = "create" /\ TaskFails(r)) => Len(tasks') = Len(tasks)]_vars

\* C17 witness: createTask resolved onto a list that already held a task.
C17_Witness ==
  /\ last.op = "resolved" /\ last.kind = "create"
  /\ Len(tasks) >= 2

\* C18: when updateTask, addComment or updateTaskStatus resolves for an id
\* that no cached task has and that is not the id of currentTask, tasks and
\* currentTask are left as they were.
C18_UncachedIdIsNoOp ==
  [][\A r \in BagToSet(treqs) :
       (/\ r.kind \in {"update", "comment", "status"} /\ TaskResolves(r)
        /\ ~HasTask(tasks, r.id) /\ currentTask.id # r.id)
         => UNCHANGED <<tasks, currentTask>>]_vars

\* C18 witness: such an operation resolved for an id the cache does not hold,
\* while the cache held another task and a current task.
C18_Witness ==
  /\ last.op = "resolved" /\ last.kind \in {"update", "comment", "status"}
  /\ ~HasTask(tasks, last.id) /\ currentTask.id # last.id
  /\ tasks # <<>> /\ currentTask # NoTask

\* The entries of ts whose id is not id, in their order.
RECURSIVE Others(_, _)
Others(ts, id) ==
  IF ts = <<>> THEN <<>>
  ELSE IF ts[Len(ts)].id = id THEN Others(SubSeq(ts, 1, Len(ts) - 1), id)
  ELSE Append(Others(SubSeq(ts, 1, Len(ts) - 1), id), ts[Len(ts)])

\* C19: when deleteTask(id) resolves, no cached task has the id, the other
\* cached tasks are unchanged and in the same order, and currentTask is null
\* if it had the id and unchanged otherwise; when neither the list nor
\* currentTask had the id (as after a first successful delete) nothing
\* changes.
C19_DeleteRemovesEverywhere ==
  [][\A r \in BagToSet(treqs) :
       (r.kind = "delete" /\ TaskResolves(r)) =>
         /\ ~HasTask(tasks', r.id)
         /\ tasks' = Others(tasks, r.id)
         /\ currentTask' = IF currentTask.id = r.id THEN NoTask ELSE currentTask
         /\ (~HasTask(tasks, r.id) /\ currentTask.id # r.id)
              => UNCHANGED <<tasks, currentTask>>]_vars

\* C19 witness: deleteTask resolved, another task is still cached and the
\* current task, which had another id, is still there.
C19_Witness ==
  /\ last.op = "resolved" /\ last.kind = "delete"
  /\ tasks # <<>> /\ ~HasTask(tasks, last.id)
  /\ currentTask # NoTask

\* C20: when a read (fetchTasks, fetchMyTasks, fetchTaskById) fails, nothing
\* is thrown, error is set, isLoading is false, and tasks, pagination and
\* currentTask are as before; when a mutating operation fails, it throws and
\* error is as before.
C20_FailedReadsKeepCache ==
  [][\A r \in BagToSet(treqs) :
       /\ (r.kind \in Reads /\ TaskFails(r)) =>
            /\ ~last'.thrown
            /\ taskError' # Null /\ taskLoading' = FALSE
            /\ UNCHANGED <<tasks, pagination, currentTask>>
       /\ (r.kind \in Mutations /\ TaskFails(r)) =>
            /\ last'.thrown
            /\ UNCHANGED taskError]_vars

\* C20 witness: a read has failed while the store showed a fetched list and a
\* current task; the list is still there, with the error.
C20_Witness ==
  /\ last.op = "failed" /\ ~last.thrown
  /\ tasks # <<>> /\ pagination > 0 /\ currentTask # NoTask
  /\ taskError # Null /\ ~taskLoading

\* C21: every call through api that fails is rejected, and the error it is
\* rejected with carries a status and a message: for a non-2xx response the
\* server's status, with a body that is no object wrapped into a message; for
\* a request that got no response, status 0 and 'No response from server';
\* for an exception before the request left, status 0 and its message.
C21_FailuresNormalized ==
  /\ last.op = "fulfilled" => last.req.status = 200
  /\ last.op = "rejected" =>
       /\ last.error.error # Null
       /\ last.req.state = "responded" =>
            /\ last.error.status = last.req.status
            /\ last.req.body # "object" =>
                 last.error.error = "Server error: statusText"
       /\ last.req.state = "lost" =>
            last.error = [status |-> 0, error |-> "No response from server"]
       /\ last.req.state = "setup" =>
            last.error = [status |-> 0, error |-> "error.message"]

Sent(ev, ch) == \E i \in 1..Len(last'.sent) : last'.sent[i] = <<ev, ch>>

\* C22: with the push channel connected, a setActiveChannel or
\* setActiveRecipient that changes the active scope away from a channel p
\* emits 'channel:leave' for p; setActiveChannel(c) issues the fetch of c's
\* history and emits no 'channel:join' itself, the join for c is emitted when
\* that fetch resolves; setActiveRecipient emits no 'channel:join', nor does
\* the resolving fetch of a direct conversation.
C22_LeaveAndJoinOnScopeChange ==
  [][/\ (/\ last'.op \in {"setActiveChannel", "setActiveRecipient"}
         /\ IsConnected /\ activeChannel # Null /\ activeChannel' # activeChannel)
          => Sent("channel:leave", activeChannel)
     /\ (last'.op = "setActiveChannel" /\ activeChannel' # Null)
          => /\ reqs' = BagAdd(reqs, Req("channel", activeChannel', Null))
             /\ \A c \in Channels : ~Sent("channel:join", c)
     /\ \A r \in BagToSet(reqs) :
          (last'.op = "fetchResolved" /\ reqs' = BagDel(reqs, r) /\ IsConnected)
            => /\ r.kind = "channel" => Sent("channel:join", r.channel)
               /\ r.kind = "dm" => last'.sent = <<>>
     /\ last'.op = "setActiveRecipient"
          => \A c \in Channels : ~Sent("channel:join", c)]_vars

\* C23: when updateTask or updateTaskStatus resolves for a cached id, every
\* cached entry with the id, and currentTask if it has the id, becomes the
\* task of that call's response, whatever the cache held and whatever else is
\* in flight: of two such calls in flight together the one that resolves
\* last leaves its response in the cache, also when the server handled it
\* first.
C23_LastResolvedWins ==
  [][\A r \in BagToSet(treqs) :
       (r.kind \in {"update", "status"} /\ TaskResolves(r)) =>
         /\ Len(tasks') = Len(tasks)
         /\ \A i \in 1..Len(tasks) :
              tasks'[i] = IF tasks[i].id = r.id THEN r.resp[1] ELSE tasks[i]
         /\ currentTask' = IF currentTask.id = r.id THEN r.resp[1] ELSE currentTask]_vars

\* C23 witness: two such calls on one id have resolved one after the other,
\* nothing is in flight any more, and the cache holds the response of the
\* second to resolve, which is not what the server stores: the server handled
\* that call first.
C23_Witness ==
  /\ last.op = "resolved" /\ last.kind \in {"update", "status"} /\ last.second
  /\ treqs = EmptyBag
  /\ \E i \in 1..Len(tasks) :
       tasks[i].id = last.id /\ tasks[i] # srvTasks[last.id]

\* C24: with the push channel connected throughout, once no history fetch of
\* the setActiveChannel / setActiveRecipient calls made so far is in flight,
\* the channels the client is joined to are exactly the active channel, or
\* none when no channel is active.
C24_JoinedIsActiveChannel ==
  (IsConnected /\ reqs = EmptyBag) =>
    socket.joined = IF activeChannel # Null THEN {activeChannel} ELSE {}

\* C25: a message of the active scope that addMessage appended while the
\* history fetch of that scope was in flight is still in the list when that
\* fetch resolves.
C25_LiveMessageSurvivesFetch ==
  [][(/\ last.op = "addMessage" /\ last.case = "new"
      /\ last'.op = "fetchResolved" /\ ~last'.stale)
       => HasId(messages', last.id)]_vars

\* C27: in every state of the auth store, isAuthenticated implies that token
\* and user are both set.
C27_AuthenticatedHasTokenAndUser ==
  isAuthenticated => (token # Null /\ user # Null)

\* The step issues a request that carries the bearer token t.
IssuedWith(t) ==
  \/ \E x \in BagToSet(apiReqs') :
       CopiesIn(x, apiReqs') > CopiesIn(x, apiReqs) /\ x.state = "sent" /\ x.bearer = t
  \/ \E x \in BagToSet(authReqs') :
       CopiesIn(x, authReqs') > CopiesIn(x, authReqs) /\ x.bearer = t

\* C26: from the 401 that removed the stored token until a login or register
\* succeeds, the 'auth-storage' entry does not hold that token again and no
\* request is issued with it.
C26_RevokedTokenNotReused ==
  /\ [](revoked # Null => authStorage # revoked)
  /\ [][revoked # Null => ~IssuedWith(revoked)]_vars

\* C28: an inbound event the server delivers on the manager's connection
\* calls every handler registered for its name (registered by on and not
\* since removed by off) exactly once and no other handler at all, whatever
\* on, off, connect and disconnect calls came before.
C28_DispatchedOncePerRegistration ==
  (last.op = "receive" /\ last.current) =>
    \A cb \in Callbacks :
      last.calls[cb] = IF <<last.event, cb>> \in listeners THEN 1 ELSE 0

\* C29: when the connection is up, a channel is active and the program has
\* nothing left to run (no history fetch is in flight), the client is joined
\* to the active channel, also when the connection dropped and came back
\* since the channel was selected or was not up when the join was attempted:
\* the join does not wait for the user to select the channel again.
C29_RejoinedAfterReconnect ==
  (IsConnected /\ activeChannel # Null /\ reqs = EmptyBag)
    => activeChannel \in socket.joined

====
